---- MODULE Spec2Model ----
(***************************************************************************)
(* A model of clean_vglc: the level splitter (src/split.py) and the tile   *)
(* renderer (src/renderer.py).                                             *)
(*                                                                         *)
(* A Python str is a sequence of one-character strings; a column or row    *)
(* index is 0-based as in the source, and converted to the 1-based index   *)
(* of a TLA+ sequence only where an element is read.                       *)
(***************************************************************************)
EXTENDS Integers, Sequences, FiniteSets, TLC

VARIABLES
    pc,            \* position of the running function
    level_string,  \* argument of split_level / render_level
    width,         \* argument of split_level / process_level_files
    result,        \* outcome of the split_level call
    file_paths,    \* argument of process_level_files
    disk,          \* input files: path -> content read by f.read()
    out_dir,       \* output directory: file name -> content written
    stdout,        \* lines printed by process_level_files
    writes,        \* history of the f.write calls of process_level_files
    file_idx,      \* position of the for loop over file_paths (0-based)
    parts,         \* parts of the file being saved
    part_idx,      \* position of the enumerate(parts, 1) loop
    tiles,         \* argument of render_level: character -> tile image
    tile_size,     \* argument of render_level
    lines,         \* the rows render_level draws
    output,        \* the image render_level builds
    pastes         \* history of the output.paste calls of render_level

splitVars == <<width, result>>
batchVars == <<file_paths, disk, out_dir, stdout, writes, file_idx, parts,
               part_idx>>
renderVars == <<tiles, tile_size, lines, output, pastes>>

vars == <<pc, level_string, splitVars, batchVars, renderVars>>

\* ------------------------------------------------------------------ bounds
MaxLen == 5
MaxWidth == 3
MaxFiles == 3
MaxRenderLen == 4
MaxTileSize == 2

\* ------------------------------------------------------------ Python str
NL == "\n"
SP == " "

Max(a, b) == IF a >= b THEN a ELSE b
Min(a, b) == IF a <= b THEN a ELSE b

\* All sequences over S of length 0..n.
SeqUpTo(S, n) == UNION {[1..k -> S] : k \in 0..n}

\* s.lstrip(chars) / s.rstrip(chars) / s.strip(chars), chars a set.
RECURSIVE LStrip(_, _)
LStrip(s, chars) ==
    IF s # <<>> /\ Head(s) \in chars THEN LStrip(Tail(s), chars) ELSE s

RECURSIVE RStrip(_, _)
RStrip(s, chars) ==
    IF s # <<>> /\ s[Len(s)] \in chars
    THEN RStrip(SubSeq(s, 1, Len(s) - 1), chars)
    ELSE s

Strip(s, chars) == RStrip(LStrip(s, chars), chars)

\* s.split(sep), sep one character: always at least one piece.
RECURSIVE SplitAcc(_, _, _)
SplitAcc(s, sep, cur) ==
    IF s = <<>> THEN <<cur>>
    ELSE IF Head(s) = sep THEN <<cur>> \o SplitAcc(Tail(s), sep, <<>>)
    ELSE SplitAcc(Tail(s), sep, Append(cur, Head(s)))

Split(s, sep) == SplitAcc(s, sep, <<>>)

\* sep.join(pieces)
RECURSIVE Join(_, _)
Join(pieces, sep) ==
    IF pieces = <<>> THEN <<>>
    ELSE IF Len(pieces) = 1 THEN pieces[1]
    ELSE pieces[1] \o <<sep>> \o Join(Tail(pieces), sep)

\* s.ljust(n): right-padded with spaces, never truncated.
Ljust(s, n) == s \o [i \in 1..(n - Len(s)) |-> SP]

\* c in s
Contains(s, c) == \E i \in 1..Len(s) : s[i] = c

\* s.index(c), 0-based; only used where c in s.
Index(s, c) == (CHOOSE i \in 1..Len(s) :
                   s[i] = c /\ \A j \in 1..(i - 1) : s[j] # c) - 1

\* max(len(line) for line in lines), lines non-empty.
MaxLineLen(ls) ==
    CHOOSE m \in {Len(ls[i]) : i \in 1..Len(ls)} :
        \A i \in 1..Len(ls) : Len(ls[i]) <= m

\* One bound of a slice: a negative index counts from the end, and the
\* result is clamped to 0..len.
SliceBound(i, n) == IF i < 0 THEN Max(i + n, 0) ELSE Min(i, n)

\* s[a:b] with Python's slice semantics (0-based, b exclusive).
PySlice(s, a, b) ==
    SubSeq(s, SliceBound(a, Len(s)) + 1, SliceBound(b, Len(s)))

\* list(range(0, stop, step)), step # 0.
RECURSIVE RangeFrom(_, _, _)
RangeFrom(start, stop, step) ==
    IF (step > 0 /\ start >= stop) \/ (step < 0 /\ start <= stop) THEN <<>>
    ELSE <<start>> \o RangeFrom(start + step, stop, step)

\* --------------------------------------------------------- split_level
START_MARKER == "{"
END_MARKER == "}"

\* lines 19-25: the rows of the level, right-padded to the longest row.
SplitLines(s) == Split(Strip(s, {NL}), NL)

padded_lines(s) ==
    LET ls == SplitLines(s)
        max_width == MaxLineLen(ls)
    IN  [i \in 1..Len(ls) |-> Ljust(ls[i], max_width)]

None == "None"

\* lines 28-39: the column of the marker in the first row that holds it;
\* the variable stays None when no row holds the marker.
HasMarker(pl, marker) == \E i \in 1..Len(pl) : Contains(pl[i], marker)

MarkerCol(pl, marker) ==
    LET r == CHOOSE i \in 1..Len(pl) :
                 /\ Contains(pl[i], marker)
                 /\ \A j \in 1..(i - 1) : ~Contains(pl[j], marker)
    IN  Index(pl[r], marker)

prefix_lines(pl, start_col) ==
    [i \in 1..Len(pl) |-> PySlice(pl[i], 0, start_col + 1)]

suffix_lines(pl, end_col) ==
    [i \in 1..Len(pl) |-> PySlice(pl[i], end_col, Len(pl[i]))]

middle_lines(pl, start_col, end_col) ==
    [i \in 1..Len(pl) |-> PySlice(pl[i], start_col + 1, end_col)]

\* lines 65-69: one partial level, the rows joined by line breaks.
CombinedLevel(pl, start_col, end_col, start, end) ==
    Join([i \in 1..Len(pl) |->
             prefix_lines(pl, start_col)[i]
             \o PySlice(middle_lines(pl, start_col, end_col)[i], start, end)
             \o suffix_lines(pl, end_col)[i]],
         NL)

\* lines 57-69: the loop over range(0, middle_width, width), left by the
\* break at the first window that ends past middle_width.
\* The loop without the break of lines 61-62: the last, short window is kept.
SplitLoopKeepsRemainder(starts, pl, start_col, end_col, w) ==
    [n \in 1..Len(starts) |->
        CombinedLevel(pl, start_col, end_col, starts[n], starts[n] + w)]

RECURSIVE SplitLoop(_, _, _, _, _)
SplitLoop(starts, pl, start_col, end_col, w) ==
    IF starts = <<>> THEN <<>>
    ELSE LET start == Head(starts)
             end == start + w
         IN  IF end > end_col - start_col - 1 THEN <<>>
             ELSE <<CombinedLevel(pl, start_col, end_col, start, end)>>
                  \o SplitLoop(Tail(starts), pl, start_col, end_col, w)

\* The outcome of split_level(s, w): the exception raised (None when it
\* returns) and the list returned.
Raise(what) == [raised |-> what, partial_levels |-> <<>>]
Return(pls) == [raised |-> None, partial_levels |-> pls]

split_level(s, w) ==
    LET pl == padded_lines(s)
        start_col == MarkerCol(pl, START_MARKER)
        end_col == MarkerCol(pl, END_MARKER)
    IN  IF ~HasMarker(pl, START_MARKER) \/ ~HasMarker(pl, END_MARKER)
        THEN Raise("ValueError: Level must contain both '{' and '}' markers")
        ELSE IF w = 0
        THEN Raise("ValueError: range() arg 3 must not be zero")
        ELSE Return(SplitLoop(RangeFrom(0, end_col - start_col - 1, w),
                              pl, start_col, end_col, w))

\* ------------------------------------------- specification: split_level
SplitAlphabet == {START_MARKER, END_MARKER, "A", SP, NL}
LevelStrings == SeqUpTo(SplitAlphabet, MaxLen)
Widths == (0 - MaxWidth)..MaxWidth

NoCall == [raised |-> "no call yet", partial_levels |-> <<>>]

\* The variables of the functions a specification does not run.
NoBatch ==
    /\ file_paths = <<>> /\ disk = <<>> /\ out_dir = <<>> /\ stdout = <<>>
    /\ writes = <<>> /\ file_idx = 0 /\ parts = <<>> /\ part_idx = 0

NoRender ==
    /\ tiles = <<>> /\ tile_size = 0 /\ lines = <<>> /\ output = <<>>
    /\ pastes = <<>>

SplitInit ==
    /\ pc = "split_level"
    /\ level_string \in LevelStrings
    /\ width \in Widths
    /\ result = NoCall
    /\ NoBatch
    /\ NoRender

\* The call returns its list.
SplitReturns ==
    /\ pc = "split_level"
    /\ split_level(level_string, width).raised = None
    /\ result' = split_level(level_string, width)
    /\ pc' = "returned"
    /\ UNCHANGED <<level_string, width, batchVars, renderVars>>

\* The call raises.
SplitRaises ==
    /\ pc = "split_level"
    /\ split_level(level_string, width).raised # None
    /\ result' = split_level(level_string, width)
    /\ pc' = "raised"
    /\ UNCHANGED <<level_string, width, batchVars, renderVars>>

SplitNext == SplitReturns \/ SplitRaises

SpecSplit == SplitInit /\ [][SplitNext]_vars

\* --------------------------------------------------- claims: split_level
\* What the claims speak of, read off the call's argument.
InRows == padded_lines(level_string)
BothMarkers == HasMarker(InRows, START_MARKER) /\ HasMarker(InRows, END_MARKER)
InStartCol == MarkerCol(InRows, START_MARKER)
InEndCol == MarkerCol(InRows, END_MARKER)
InMaxWidth == Len(InRows[1])
InMiddleWidth == InEndCol - InStartCol - 1
Called == pc \in {"returned", "raised"}

\* The rows of the n-th partial level returned (n from 1).
PartRows(n) == Split(result.partial_levels[n], NL)

\* What lies between the prefix and the suffix in a row of a partial level.
MiddleBand(row) ==
    SubSeq(row, InStartCol + 2, Len(row) - (InMaxWidth - InEndCol))

\* The middle bands of partial levels 1..n in row r, one after the other.
RECURSIVE ConcatBands(_, _)
ConcatBands(n, r) ==
    IF n = 0 THEN <<>> ELSE ConcatBands(n - 1, r) \o MiddleBand(PartRows(n)[r])

\* C1: with both markers and a split width >= 1, split_level returns
\* floor(middle_width / width) partial levels when middle_width >= 0 and none
\* when middle_width < width; in every row the middle band of the i-th
\* partial is columns [i*width, (i+1)*width) of the original middle band, so
\* the bands in order are the first k*width columns of it and no more.
C1_Coverage ==
    (Called /\ BothMarkers /\ width >= 1) =>
        /\ result.raised = None
        /\ LET k == Len(result.partial_levels)
           IN  /\ InMiddleWidth >= 0 => k = InMiddleWidth \div width
               /\ InMiddleWidth < width => k = 0
               /\ \A n \in 1..k :
                     /\ Len(PartRows(n)) = Len(InRows)
                     /\ \A r \in 1..Len(InRows) :
                           MiddleBand(PartRows(n)[r]) =
                               [j \in 1..width |->
                                   InRows[r][InStartCol + 1 + (n - 1) * width + j]]
               /\ \A r \in 1..Len(InRows) :
                     ConcatBands(k, r) =
                         SubSeq(InRows[r], InStartCol + 2,
                                InStartCol + 1 + k * width)

\* A split of width 2 or more that returns a partial level and leaves middle
\* columns over.
C1_Witness ==
    /\ pc = "returned" /\ BothMarkers /\ width >= 2
    /\ Len(result.partial_levels) >= 1
    /\ InMiddleWidth > Len(result.partial_levels) * width

\* C2 as stated: every partial level returned has the row count of the
\* padded grid, and each of its rows is the row's prefix (up to and with the
\* start marker column), exactly `width` middle characters and the row's
\* suffix (from the end marker column on), hence of length
\* start_col + 1 + width + (max_width - end_col).
C2_CompleteLevel ==
    (pc = "returned") =>
        \A n \in 1..Len(result.partial_levels) :
            /\ Len(PartRows(n)) = Len(InRows)
            /\ \A r \in 1..Len(PartRows(n)) :
                  LET row == PartRows(n)[r]
                  IN  /\ Len(row) = InStartCol + 1 + width
                                      + (InMaxWidth - InEndCol)
                      /\ SubSeq(row, 1, InStartCol + 1) =
                             SubSeq(InRows[r], 1, InStartCol + 1)
                      /\ SubSeq(row, InStartCol + 2 + width, Len(row)) =
                             SubSeq(InRows[r], InEndCol + 1, InMaxWidth)

\* C3 as stated: split_level raises when a marker is in no row, and raises
\* in no other case, whatever the split width.
C3_OnlyMarkerError ==
    Called =>
        /\ ~BothMarkers =>
               /\ pc = "raised"
               /\ result.partial_levels = <<>>
        /\ BothMarkers =>
               /\ pc = "returned"
               /\ result.raised = None

\* ------------------------------------------------- process_level_files
\* s.rfind(c), 0-based, -1 when c is not in s.
RFind(s, c) ==
    IF Contains(s, c)
    THEN (CHOOSE i \in 1..Len(s) :
              s[i] = c /\ \A j \in (i + 1)..Len(s) : s[j] # c) - 1
    ELSE 0 - 1

\* os.path.basename(p): what follows the last "/".
Basename(p) == PySlice(p, RFind(p, "/") + 1, Len(p))

\* os.path.splitext(p)[0]: p up to its last dot, when that dot follows a
\* character of the file name that is not a dot.
SplitextRoot(p) ==
    LET sepIndex == RFind(p, "/")
        dotIndex == RFind(p, ".")
    IN  IF /\ dotIndex > sepIndex
           /\ \E i \in (sepIndex + 1)..(dotIndex - 1) : p[i + 1] # "."
        THEN PySlice(p, 0, dotIndex)
        ELSE p

\* line 92
base_name(file_path) == SplitextRoot(Basename(file_path))

\* str(i), i >= 0
RECURSIVE Str(_)
Str(i) ==
    LET d == <<"0", "1", "2", "3", "4", "5", "6", "7", "8", "9">>
    IN  IF i < 10 THEN <<d[i + 1]>> ELSE Str(i \div 10) \o <<d[(i % 10) + 1]>>

\* The first number of enumerate(parts, 1), line 106.
FirstPartNumber == 1

\* f"{base_name}_split_{i}.txt" with numbering from zero.
output_filename_from_zero(file_path, i) ==
    base_name(file_path) \o <<"_", "s", "p", "l", "i", "t", "_">>
        \o Str(i - 1) \o <<".", "t", "x", "t">>

\* line 107: f"{base_name}_split_{i}.txt"
output_filename(file_path, i) ==
    base_name(file_path) \o <<"_", "s", "p", "l", "i", "t", "_">>
        \o Str(i) \o <<".", "t", "x", "t">>

\* f.write(content) on a file opened with 'w': created or overwritten.
WriteFile(dir, name, content) ==
    [n \in DOMAIN dir \cup {name} |-> IF n = name THEN content ELSE dir[n]]

\* A raised ValueError that leaves the for loop of line 86.
AfterValueErrorAborts(idx) == [pc |-> "done", file_idx |-> idx]

\* lines 97-99: the ValueError is caught, and `continue` takes the next file.
AfterValueError(idx) == [pc |-> "loop", file_idx |-> idx + 1]

\* The input files and their contents.
InputPaths ==
    { <<"a", ".", "t">>, <<"d", "/", "a", ".", "t">>,
      <<"b", ".", "c", ".", "t">> }

BatchLevels ==
    { <<"{", "A", "B", "}">>, <<"{", "B", "}">>, <<"A", "B">>, <<"{", "}">> }

\* What the output directory may hold before the call (os.makedirs with
\* exist_ok=True keeps an existing directory as it is).
StaleDirs ==
    { <<>>,
      [n \in {output_filename(<<"a", ".", "t">>, 2)} |-> <<"o", "l", "d">>] }

BatchInit ==
    /\ pc = "loop"
    /\ file_paths \in SeqUpTo(InputPaths, MaxFiles)
    /\ disk \in [{file_paths[i] : i \in 1..Len(file_paths)} -> BatchLevels]
    /\ width \in Widths
    /\ out_dir \in StaleDirs
    /\ stdout = <<>> /\ writes = <<>>
    /\ file_idx = 0 /\ parts = <<>> /\ part_idx = 0
    /\ level_string = <<>> /\ result = NoCall
    /\ NoRender

InLoop == pc = "loop" /\ file_idx < Len(file_paths)
CurrentPath == file_paths[file_idx + 1]
CurrentSplit == split_level(disk[CurrentPath], width)

\* lines 88-99: the file is read, split_level raises ValueError, the file is
\* skipped.
SkipOnValueError ==
    /\ InLoop
    /\ CurrentSplit.raised # None
    /\ stdout' = Append(stdout, [line |-> "Skipping", path |-> CurrentPath,
                                 why |-> CurrentSplit.raised])
    /\ pc' = AfterValueError(file_idx).pc
    /\ file_idx' = AfterValueError(file_idx).file_idx
    /\ UNCHANGED <<level_string, width, result, file_paths, disk, out_dir,
                   writes, parts, part_idx, renderVars>>

\* lines 88-103: the file is read and split into no part, the file is skipped.
SkipOnNoParts ==
    /\ InLoop
    /\ CurrentSplit.raised = None
    /\ CurrentSplit.partial_levels = <<>>
    /\ stdout' = Append(stdout, [line |-> "Skipping", path |-> CurrentPath,
                                 why |-> "No splits of width possible"])
    /\ file_idx' = file_idx + 1
    /\ UNCHANGED <<pc, level_string, width, result, file_paths, disk, out_dir,
                   writes, parts, part_idx, renderVars>>

\* lines 88-106: the file is read and split into parts, the save loop starts.
BeginSave ==
    /\ InLoop
    /\ CurrentSplit.raised = None
    /\ CurrentSplit.partial_levels # <<>>
    /\ parts' = CurrentSplit.partial_levels
    /\ part_idx' = 0
    /\ pc' = "save"
    /\ UNCHANGED <<level_string, width, result, file_paths, disk, out_dir,
                   stdout, writes, file_idx, renderVars>>

\* lines 106-113: one part is written and reported; after the last part the
\* for loop takes the next file.
SavePart ==
    /\ pc = "save"
    /\ LET i == part_idx + FirstPartNumber
           part == parts[part_idx + 1]
           name == output_filename(CurrentPath, i)
       IN  /\ out_dir' = WriteFile(out_dir, name, part)
           /\ writes' = Append(writes, [file |-> file_idx + 1, name |-> name,
                                        content |-> part])
           /\ stdout' = Append(stdout, [line |-> "Saved", path |-> name,
                                         why |-> ""])
    /\ IF part_idx + 1 < Len(parts)
       THEN /\ part_idx' = part_idx + 1
            /\ UNCHANGED <<pc, file_idx, parts>>
       ELSE /\ pc' = "loop"
            /\ file_idx' = file_idx + 1
            /\ parts' = <<>>
            /\ part_idx' = 0
    /\ UNCHANGED <<level_string, width, result, file_paths, disk, renderVars>>

\* line 86: the list is exhausted, the function returns.
BatchReturns ==
    /\ pc = "loop"
    /\ file_idx = Len(file_paths)
    /\ pc' = "done"
    /\ UNCHANGED <<level_string, splitVars, batchVars, renderVars>>

BatchNext ==
    SkipOnValueError \/ SkipOnNoParts \/ BeginSave \/ SavePart \/ BatchReturns

SpecBatch == BatchInit /\ [][BatchNext]_vars

\* ------------------------------------------- claims: process_level_files
Files == 1..Len(file_paths)
OutcomeOf(i) == split_level(disk[file_paths[i]], width)
PartsOf(i) == OutcomeOf(i).partial_levels
Malformed(i) == OutcomeOf(i).raised # None \/ PartsOf(i) = <<>>

\* The f.write calls made for the i-th file of the list, in order.
WritesFor(i) == SelectSeq(writes, LAMBDA w : w.file = i)
SkipLines == SelectSeq(stdout, LAMBDA l : l.line = "Skipping")

\* C4: process_level_files takes the files in order, is always at a file of
\* the list or at a part to save until it returns, and returns only after
\* the whole list: a file whose level raises or yields no part is skipped
\* (reported, nothing written for it), and every file after it is still split
\* and has each of its parts written.
C4_SkipAndContinue ==
    /\ \A a, b \in 1..Len(writes) : a < b => writes[a].file <= writes[b].file
    /\ \/ pc = "loop" /\ file_idx <= Len(file_paths)
       \/ pc = "save" /\ file_idx < Len(file_paths) /\ part_idx < Len(parts)
       \/ pc = "done"
    /\ (pc = "done") =>
          /\ file_idx = Len(file_paths)
          /\ Len(SkipLines) = Cardinality({i \in Files : Malformed(i)})
          /\ \A i \in Files :
                IF Malformed(i)
                THEN WritesFor(i) = <<>>
                ELSE /\ Len(WritesFor(i)) = Len(PartsOf(i))
                     /\ \A n \in 1..Len(PartsOf(i)) :
                           WritesFor(i)[n].content = PartsOf(i)[n]

\* A finished batch in which a file without markers and a file too narrow
\* for the width came before a file that was saved.
C4_Witness ==
    /\ pc = "done"
    /\ \E i, j, k \in Files :
          /\ i < k /\ j < k
          /\ OutcomeOf(i).raised # None
          /\ OutcomeOf(j).raised = None /\ PartsOf(j) = <<>>
          /\ ~Malformed(k) /\ WritesFor(k) # <<>>

\* C10 as stated: after the batch, each input file that produced k >= 1
\* parts has <base>_split_1.txt .. <base>_split_k.txt in the output
\* directory, and the file numbered n holds that input's n-th part.
C10_OwnParts ==
    (pc = "done") =>
        \A i \in Files : \A n \in 1..Len(PartsOf(i)) :
            /\ output_filename(file_paths[i], n) \in DOMAIN out_dir
            /\ out_dir[output_filename(file_paths[i], n)] = PartsOf(i)[n]

\* The last file of the list with the base name of file i and at least n
\* parts.
LastWriter(i, n) ==
    CHOOSE j \in Files :
        /\ base_name(file_paths[j]) = base_name(file_paths[i])
        /\ Len(PartsOf(j)) >= n
        /\ \A l \in Files :
              (/\ base_name(file_paths[l]) = base_name(file_paths[i])
               /\ Len(PartsOf(l)) >= n) => l <= j

NameOf(i, n) ==
    base_name(file_paths[i]) \o <<"_", "s", "p", "l", "i", "t", "_">>
        \o Str(n) \o <<".", "t", "x", "t">>

\* C10, amended: after the batch, each input file that produced k >= 1 parts
\* has <base>_split_1.txt .. <base>_split_k.txt in the output directory, and
\* the file numbered n holds the n-th part of the last file of the list that
\* has this base name and at least n parts.
C10_LastWriterParts ==
    (pc = "done") =>
        \A i \in Files : \A n \in 1..Len(PartsOf(i)) :
            /\ NameOf(i, n) \in DOMAIN out_dir
            /\ out_dir[NameOf(i, n)] = PartsOf(LastWriter(i, n))[n]

\* A finished batch where two files of one base name both produced parts,
\* and the later one replaced the first part of the earlier one.
C10_Witness ==
    /\ pc = "done"
    /\ \E i, j \in Files :
          /\ i < j
          /\ base_name(file_paths[i]) = base_name(file_paths[j])
          /\ Len(PartsOf(i)) >= 2 /\ Len(PartsOf(j)) >= 1
          /\ PartsOf(i)[1] # PartsOf(j)[1]
          /\ out_dir[NameOf(i, 1)] = PartsOf(j)[1]
          /\ out_dir[NameOf(i, 2)] = PartsOf(i)[2]

\* --------------------------------------------------------- render_level
\* A tile image: its pixel size and the alpha of its top-left pixel (opaque,
\* clear or semi-transparent); every other pixel is opaque.  An entry that is
\* None has present = FALSE.
TileImage(w, h, alpha) == [present |-> TRUE, w |-> w, h |-> h, alpha |-> alpha]
NoImage == [present |-> FALSE, w |-> 0, h |-> 0, alpha |-> "opaque"]

\* line 157
SPRITE_CHARS == {"E"}
\* The character whose tile is the sky of lines 167 and 183.
SKY == "-"

\* A pixel of the output is the stack of what shows there, bottom first: the
\* fill colour of line 160, or pixels of tile images named by their tile and
\* their place in it.
FillPixel == [tile |-> "fill", u |-> 0, v |-> 0]

\* Image.new('RGBA', (w, h), fill)
NewImage(w, h) ==
    [w |-> w, h |-> h,
     px |-> [p \in (0..(w - 1)) \X (0..(h - 1)) |-> <<FillPixel>>]]

\* `char in tiles and tiles[char] is not None`
Usable(tl, char) == char \in DOMAIN tl /\ tl[char].present

\* What is pasted: a tile image at its own size.
Native(char, img) ==
    [tile |-> char, w |-> img.w, h |-> img.h, sw |-> img.w, sh |-> img.h,
     alpha |-> img.alpha]

\* img.resize((w, h), Image.NEAREST): pixel (i, j) of the result is the source
\* pixel under its centre.
Resize(d, w, h) == [d EXCEPT !.w = w, !.h = h]
SourceU(d, i) == ((2 * i + 1) * d.sw) \div (2 * d.w)
SourceV(d, j) == ((2 * j + 1) * d.sh) \div (2 * d.h)

\* lines 169-170, 178-179, 185-186: resized only when the size differs.
Scaled(char, img, t) ==
    IF <<img.w, img.h>> # <<t, t>>
    THEN Resize(Native(char, img), t, t)
    ELSE Native(char, img)

LayerAt(d, i, j) == [tile |-> d.tile, u |-> SourceU(d, i), v |-> SourceV(d, j)]
AlphaAt(d, i, j) ==
    IF SourceU(d, i) = 0 /\ SourceV(d, j) = 0 THEN d.alpha ELSE "opaque"

\* One pixel of output.paste(im, box, mask=im): the mask is the alpha of im.
Composite(under, layer, alpha) ==
    CASE alpha = "opaque" -> <<layer>>
      [] alpha = "clear" -> under
      [] OTHER -> Append(under, layer)

\* output.paste(d, (x, y), d): the part of d inside the image is pasted.
Paste(img, d, x, y) ==
    [img EXCEPT !.px =
        [p \in DOMAIN img.px |->
            IF /\ x <= p[1] /\ p[1] < x + d.w
               /\ y <= p[2] /\ p[2] < y + d.h
            THEN Composite(img.px[p], LayerAt(d, p[1] - x, p[2] - y),
                           AlphaAt(d, p[1] - x, p[2] - y))
            ELSE img.px[p]]]

\* The image and the history of paste calls after one more call.
Draw(st, pass, cell, d, x, y) ==
    [output |-> Paste(st.output, d, x, y),
     pastes |-> Append(st.pastes,
                       [pass |-> pass, row |-> cell[1], col |-> cell[2],
                        tile |-> d.tile, x |-> x, y |-> y,
                        w |-> d.w, h |-> d.h])]

\* line 147
RenderLines(s) == Split(Strip(s, {SP, NL}), NL)

\* The cells (row, col) in the order of the loops of lines 163-164 and
\* 190-191.
RECURSIVE CellsFrom(_, _)
CellsFrom(ls, r) ==
    IF r > Len(ls) THEN <<>>
    ELSE [c \in 1..Len(ls[r]) |-> <<r - 1, c - 1>>] \o CellsFrom(ls, r + 1)

Cells(ls) == CellsFrom(ls, 1)
CharAt(ls, cell) == ls[cell[1] + 1][cell[2] + 1]

\* lines 167-171 and 183-187: the sky tile, when there is one.
DrawSky(st, tl, t, cell) ==
    IF Usable(tl, SKY)
    THEN Draw(st, "background", cell, Scaled(SKY, tl[SKY], t),
              cell[2] * t, cell[1] * t)
    ELSE st

\* The first pass with the fallback of lines 181-187 left out.
BackgroundCellNoFallback(st, ls, tl, t, cell) ==
    LET char == CharAt(ls, cell)
    IN  IF char \in SPRITE_CHARS THEN DrawSky(st, tl, t, cell)
        ELSE IF Usable(tl, char)
        THEN Draw(st, "background", cell, Scaled(char, tl[char], t),
                  cell[2] * t, cell[1] * t)
        ELSE st

\* lines 165-187: the body of the first pass.
BackgroundCell(st, ls, tl, t, cell) ==
    LET char == CharAt(ls, cell)
    IN  IF char \in SPRITE_CHARS THEN DrawSky(st, tl, t, cell)
        ELSE IF Usable(tl, char)
        THEN Draw(st, "background", cell, Scaled(char, tl[char], t),
                  cell[2] * t, cell[1] * t)
        ELSE DrawSky(st, tl, t, cell)

\* A sprite anchored to the top of its cell.
SpriteBoxTopAnchored(t, cell, sprite_width, sprite_height) ==
    [x |-> cell[2] * t + (t - sprite_width) \div 2, y |-> cell[1] * t]

\* lines 198-199: centred in the cell, bottom on the bottom of the cell.
SpriteBox(t, cell, sprite_width, sprite_height) ==
    [x |-> cell[2] * t + (t - sprite_width) \div 2,
     y |-> (cell[1] + 1) * t - sprite_height]

\* lines 192-201: the body of the second pass.
SpriteCell(st, ls, tl, t, cell) ==
    LET char == CharAt(ls, cell)
    IN  IF char \in SPRITE_CHARS /\ Usable(tl, char)
        THEN LET sprite == Native(char, tl[char])
                 box == SpriteBox(t, cell, sprite.w, sprite.h)
             IN  Draw(st, "sprites", cell, sprite, box.x, box.y)
        ELSE st

\* lines 163-187: the first pass over the cells from the k-th on.
RECURSIVE BackgroundLoop(_, _, _, _, _)
BackgroundLoop(st, ls, tl, t, k) ==
    IF k > Len(Cells(ls)) THEN st
    ELSE BackgroundLoop(BackgroundCell(st, ls, tl, t, Cells(ls)[k]),
                        ls, tl, t, k + 1)

\* lines 190-201: the second pass over the cells from the k-th on.
RECURSIVE SpriteLoop(_, _, _, _, _)
SpriteLoop(st, ls, tl, t, k) ==
    IF k > Len(Cells(ls)) THEN st
    ELSE SpriteLoop(SpriteCell(st, ls, tl, t, Cells(ls)[k]),
                    ls, tl, t, k + 1)

\* The two loops in the other order.
PassesSpritesFirst == <<"sprites", "background">>

\* lines 162-203: the first pass, then the second, then the image is
\* returned.
Passes == <<"background", "sprites">>
AfterPass(p) == IF p = Passes[1] THEN Passes[2] ELSE "rendered"

\* ----------------------------------------- specification: render_level
\* The characters of a level: a terrain character, the sprite character, the
\* blank, the line break.  (A cell holding "-" is drawn as a cell whose
\* character has no usable tile: both get the sky tile.)
RenderAlphabet == {"X", "E", SP, NL}
RenderStrings ==
    {s \in SeqUpTo(RenderAlphabet, MaxRenderLen) : Strip(s, {SP, NL}) # <<>>}
\* Level strings without blanks or line breaks at either end.
TrimmedStrings == {s \in RenderStrings : Strip(s, {SP, NL}) = s}
TileSizes == 1..MaxTileSize

\* A tile set maps some of "-", "X", "E" to an image or to None; a choice
\* is <<>> for a character that is not a key, <<image>> otherwise.
SkyChoices ==
    { <<>>, <<NoImage>>, <<TileImage(1, 1, "opaque")>>,
      <<TileImage(2, 2, "semi")>> }
TerrainChoices ==
    { <<NoImage>>, <<TileImage(1, 1, "opaque")>>,
      <<TileImage(2, 1, "clear")>> }
SpriteChoices ==
    { <<NoImage>>, <<TileImage(1, 1, "opaque")>>,
      <<TileImage(1, 3, "opaque")>>, <<TileImage(3, 2, "clear")>> }

TileSet(sky, terrain, sprite) ==
    LET choice == [c \in {SKY, "X", "E"} |->
                      IF c = SKY THEN sky ELSE IF c = "X" THEN terrain
                      ELSE sprite]
    IN  [c \in {c \in {SKY, "X", "E"} : choice[c] # <<>>} |-> choice[c][1]]

TileSets ==
    {TileSet(a, b, c) : a \in SkyChoices, b \in TerrainChoices,
                        c \in SpriteChoices}

\* The tile set of opaque unit tiles.
PlainTiles ==
    TileSet(<<TileImage(1, 1, "opaque")>>, <<TileImage(1, 1, "opaque")>>,
            <<TileImage(1, 1, "opaque")>>)

NoImageYet == [w |-> 0, h |-> 0, px |-> <<>>]

RenderInit ==
    /\ pc = "render_level"
    /\ \/ level_string \in TrimmedStrings /\ tiles \in TileSets
       \/ level_string \in RenderStrings /\ tiles = PlainTiles
    /\ tile_size \in TileSizes
    /\ lines = <<>> /\ output = NoImageYet /\ pastes = <<>>
    /\ width = 0 /\ result = NoCall
    /\ NoBatch

\* lines 147-160: the rows are read off the string, the image is created.
RenderBegin ==
    /\ pc = "render_level"
    /\ lines' = RenderLines(level_string)
    /\ output' = NewImage(MaxLineLen(RenderLines(level_string)) * tile_size,
                          Len(RenderLines(level_string)) * tile_size)
    /\ pc' = Passes[1]
    /\ UNCHANGED <<level_string, splitVars, batchVars, tiles, tile_size,
                   pastes>>

\* lines 163-187: the first pass.
BackgroundPass ==
    /\ pc = "background"
    /\ LET st == BackgroundLoop([output |-> output, pastes |-> pastes],
                                lines, tiles, tile_size, 1)
       IN  output' = st.output /\ pastes' = st.pastes
    /\ pc' = AfterPass("background")
    /\ UNCHANGED <<level_string, splitVars, batchVars, tiles, tile_size,
                   lines>>

\* lines 190-203: the second pass.
SpritePass ==
    /\ pc = "sprites"
    /\ LET st == SpriteLoop([output |-> output, pastes |-> pastes],
                            lines, tiles, tile_size, 1)
       IN  output' = st.output /\ pastes' = st.pastes
    /\ pc' = AfterPass("sprites")
    /\ UNCHANGED <<level_string, splitVars, batchVars, tiles, tile_size,
                   lines>>

RenderNext == RenderBegin \/ BackgroundPass \/ SpritePass

SpecRender == RenderInit /\ [][RenderNext]_vars

\* -------------------------------------------------- claims: render_level
\* The grid the caller passed in, row by row.
GridRows == Split(level_string, NL)
Rectangular ==
    /\ Len(GridRows[1]) >= 1
    /\ \A r \in 1..Len(GridRows) : Len(GridRows[r]) = Len(GridRows[1])

\* C5 as stated: for a rectangular grid of `width` columns and `height` rows
\* and any tile size t, the image is (width * t) by (height * t) pixels.
C5_ImageSize ==
    (pc # "render_level" /\ Rectangular) =>
        /\ output.w = Len(GridRows[1]) * tile_size
        /\ output.h = Len(GridRows) * tile_size

AfterBackground == pc = AfterPass("background")
NonSpriteCells ==
    {k \in 1..Len(Cells(lines)) : CharAt(lines, Cells(lines)[k]) \notin SPRITE_CHARS}
SpriteCells ==
    {k \in 1..Len(Cells(lines)) : CharAt(lines, Cells(lines)[k]) \in SPRITE_CHARS}
Offsets == (0..(tile_size - 1)) \X (0..(tile_size - 1))

\* The pixel of the image at offset o of the block of a cell.
BlockPixel(cell, o) ==
    output.px[<<cell[2] * tile_size + o[1], cell[1] * tile_size + o[2]>>]

\* The tile a non-sprite cell shows: its own when usable, else the sky.
ShownTile(cell) ==
    IF Usable(tiles, CharAt(lines, cell)) THEN CharAt(lines, cell) ELSE SKY

\* The pixel of tile c that lands on offset o when the tile is scaled to the
\* cell, and its alpha.
ScaledPixel(c, o) ==
    [tile |-> c,
     u |-> ((2 * o[1] + 1) * tiles[c].w) \div (2 * tile_size),
     v |-> ((2 * o[2] + 1) * tiles[c].h) \div (2 * tile_size)]
ScaledAlpha(c, o) ==
    IF ScaledPixel(c, o).u = 0 /\ ScaledPixel(c, o).v = 0
    THEN tiles[c].alpha ELSE "opaque"

\* C6 as stated: after the background pass the block of every non-sprite
\* cell is the cell's own tile scaled to the cell when that tile is usable,
\* and the background tile otherwise, and nothing else.
C6_TileOrSky ==
    AfterBackground =>
        \A k \in NonSpriteCells : \A o \in Offsets :
            LET cell == Cells(lines)[k]
            IN  /\ Usable(tiles, ShownTile(cell))
                /\ BlockPixel(cell, o) = <<ScaledPixel(ShownTile(cell), o)>>

\* C6, amended: after the background pass the block of every non-sprite cell
\* is the fill of the new image with at most one tile pasted over it through
\* the tile's alpha: the cell's own tile scaled to the cell when usable, else
\* the background tile when usable, else nothing.
C6_OneTileOverFill ==
    AfterBackground =>
        \A k \in NonSpriteCells : \A o \in Offsets :
            LET cell == Cells(lines)[k]
                c == ShownTile(cell)
            IN  BlockPixel(cell, o) =
                    IF ~Usable(tiles, c) THEN <<FillPixel>>
                    ELSE CASE ScaledAlpha(c, o) = "opaque" -> <<ScaledPixel(c, o)>>
                           [] ScaledAlpha(c, o) = "clear" -> <<FillPixel>>
                           [] OTHER -> <<FillPixel, ScaledPixel(c, o)>>

\* After the background pass: a cell whose character has no usable tile got
\* the background tile, and a cell got its own tile resized.
C6_Witness ==
    /\ AfterBackground
    /\ Usable(tiles, SKY)
    /\ \E k \in NonSpriteCells : ~Usable(tiles, CharAt(lines, Cells(lines)[k]))
    /\ \E k \in NonSpriteCells :
          /\ Usable(tiles, CharAt(lines, Cells(lines)[k]))
          /\ tiles[CharAt(lines, Cells(lines)[k])].w # tile_size

\* The paste a sprite cell gets in the second pass.
SpritePaste(cell) ==
    LET c == CharAt(lines, cell)
    IN  [pass |-> "sprites", row |-> cell[1], col |-> cell[2], tile |-> c,
         x |-> cell[2] * tile_size + (tile_size - tiles[c].w) \div 2,
         y |-> (cell[1] + 1) * tile_size - tiles[c].h,
         w |-> tiles[c].w, h |-> tiles[c].h]

DrawnSpriteCells ==
    SelectSeq(Cells(lines),
              LAMBDA cell : /\ CharAt(lines, cell) \in SPRITE_CHARS
                            /\ Usable(tiles, CharAt(lines, cell)))

\* C7: the background pass never draws the tile of a sprite cell there (what
\* it draws there is the background tile, and the block holds background
\* only); the sprite pass draws each sprite cell that has a usable tile
\* once, at its own size, centred at x = col*t + floor((t - w)/2) with
\* y = (row+1)*t - h, so its bottom edge is (row+1)*t.
C7_SpriteAnchoring ==
    /\ \A n \in 1..Len(pastes) :
          (/\ pastes[n].pass = "background"
           /\ lines[pastes[n].row + 1][pastes[n].col + 1] \in SPRITE_CHARS)
              => pastes[n].tile = SKY
    /\ AfterBackground =>
          \A k \in SpriteCells : \A o \in Offsets :
              \A l \in 1..Len(BlockPixel(Cells(lines)[k], o)) :
                  BlockPixel(Cells(lines)[k], o)[l].tile \in {"fill", SKY}
    /\ (pc = "rendered") =>
          /\ SelectSeq(pastes, LAMBDA e : e.pass = "sprites") =
                 [n \in 1..Len(DrawnSpriteCells) |->
                     SpritePaste(DrawnSpriteCells[n])]
          /\ \A n \in 1..Len(pastes) :
                pastes[n].pass = "sprites" =>
                    pastes[n].y + pastes[n].h = (pastes[n].row + 1) * tile_size

\* A returned image with a sprite wider and taller than its cell, whose cell
\* got the background tile in the first pass.
C7_Witness ==
    /\ pc = "rendered"
    /\ \E a, b \in 1..Len(pastes) :
          /\ pastes[a].pass = "background" /\ pastes[b].pass = "sprites"
          /\ pastes[a].row = pastes[b].row /\ pastes[a].col = pastes[b].col
          /\ pastes[b].w > tile_size /\ pastes[b].h > tile_size

\* The rows with every missing column holding a character without a tile.
UNMAPPED == "Z"
FilledRows ==
    [r \in 1..Len(lines) |->
        lines[r] \o [i \in 1..(MaxLineLen(lines) - Len(lines[r])) |-> UNMAPPED]]

\* C8 as stated: after the background pass, every missing column cell of a
\* short row holds what a cell with an unmapped character would hold there.
C8_MissingAsUnmapped ==
    AfterBackground =>
        \A r \in 1..Len(lines) :
            \A col \in Len(lines[r])..(MaxLineLen(lines) - 1) :
                \A o \in Offsets :
                    BlockPixel(<<r - 1, col>>, o) =
                        BackgroundLoop([output |-> NewImage(output.w, output.h),
                                        pastes |-> <<>>],
                                       FilledRows, tiles, tile_size, 1)
                            .output.px[<<col * tile_size + o[1],
                                         (r - 1) * tile_size + o[2]>>]

\* C9: every paste of the background pass comes before every paste of the
\* sprite pass, and in the returned image every pixel a sprite covers with a
\* pixel that is not clear shows a sprite pixel on top, the pixels above the
\* sprite's own cell too.
C9_SpritesOnTop ==
    /\ \A a, b \in 1..Len(pastes) :
          (a < b /\ pastes[a].pass = "sprites") => pastes[b].pass = "sprites"
    /\ pc = "sprites" => \A n \in 1..Len(pastes) : pastes[n].pass = "background"
    /\ (pc = "rendered") =>
          \A n \in 1..Len(DrawnSpriteCells) :
              LET e == SpritePaste(DrawnSpriteCells[n])
              IN  \A i \in 0..(e.w - 1), j \in 0..(e.h - 1) :
                      (/\ <<e.x + i, e.y + j>> \in DOMAIN output.px
                       /\ ~(i = 0 /\ j = 0 /\ tiles[e.tile].alpha = "clear"))
                          => LET stack == output.px[<<e.x + i, e.y + j>>]
                             IN  stack[Len(stack)].tile \in SPRITE_CHARS

\* A returned image where a sprite reaches into the cell above it, which got
\* a tile in the background pass.
C9_Witness ==
    /\ pc = "rendered"
    /\ \E a, b \in 1..Len(pastes) :
          /\ pastes[a].pass = "background" /\ pastes[b].pass = "sprites"
          /\ pastes[a].row + 1 = pastes[b].row /\ pastes[a].col = pastes[b].col
          /\ pastes[b].y < pastes[b].row * tile_size
          /\ pastes[b].x >= pastes[a].x
          /\ <<pastes[b].x, pastes[b].y>> \in DOMAIN output.px
          /\ LET stack == output.px[<<pastes[b].x, pastes[b].y>>]
             IN  stack[Len(stack)].tile \in SPRITE_CHARS

====
